---- MODULE Spec2Model ----
(***************************************************************************)
(* Model of gerrit-helpers: the change record built by GerritCommit from a *)
(* "gerrit query" response (gerrithelpers/commit.py), the per-commit       *)
(* status methods of Commit and the showlog flow (gerritlog.py).           *)
(*                                                                         *)
(* Python values are modelled as follows: a dict is a function whose       *)
(* DOMAIN is its set of keys, a list is a sequence, None is the record     *)
(* [NoneType |-> TRUE], a raised exception is [raised |-> its class], a    *)
(* returned value is [value |-> it], and the vote values of the response,  *)
(* which are JSON strings, are sequences of one-character strings (so      *)
(* "-1" is << "-", "1" >>).                                                *)
(***************************************************************************)
EXTENDS Integers, Sequences, FiniteSets, TLC

VARIABLES
    data,       \* the decoded response handed to GerritCommit(id, data)
    info,       \* the GerritCommit object once constructed, None before
    exc,        \* the exception that left the running operation, None if none
    commit,     \* one Commit object: change_id, is_merged, changeinfo
    called,     \* the Commit method (or showlog step) last applied to commit
    ret,        \* what that call returned, or the exception it raised
    history,    \* repo.iter_commits(): the commits of HEAD, newest first
    max_count,  \* LogOptions.max_count
    i,          \* the enumerate() counter of showlog's collection loop
    commits,    \* showlog's list of collected Commit objects
    queried,    \* the argument showlog passed to client.changes.get
    printed,    \* how many status lines showlog has printed
    pc          \* where showlog is

vars == << data, info, exc, commit, called, ret,
           history, max_count, i, commits, queried, printed, pc >>

parseVars == << data, info, exc >>
commitVars == << commit, called, ret >>
logVars == << history, max_count, i, commits, queried, printed, pc >>

None == [NoneType |-> TRUE]

Raise(class) == [raised |-> class]

Return(v) == [value |-> v]

Raised(r) == "raised" \in DOMAIN r

\* Bounds of the model.
MaxPatchSets == 3   \* patchsets of the queried change
MaxApprovals == 2   \* approvals in one response, over all its patchsets
MaxVotes == 3       \* Code-Review entries of an attached change record
MaxHistory == 3     \* commits reachable from HEAD

\* str values that sit where Python may also hold None are wrapped.
Str(s) == [str |-> s]

(***************************************************************************)
(* Python helpers.                                                         *)
(***************************************************************************)

\* dict.get(key, default)
Get(d, key, default) == IF key \in DOMAIN d THEN d[key] ELSE default

\* "d.get(key) is not None", for a dict whose values are booleans: the
\* value False is not None, so only a missing key gives None.
GetIsNotNone(d, key) == key \in DOMAIN d /\ d[key] \in BOOLEAN

\* [x for x in s if x['type'] == type]
RECURSIVE OfType(_, _)
OfType(s, type) ==
    IF s = << >> THEN << >>
    ELSE IF Head(s)["type"] = type
         THEN << Head(s) >> \o OfType(Tail(s), type)
         ELSE OfType(Tail(s), type)

Digits == << "0", "1", "2", "3", "4", "5", "6", "7", "8", "9" >>

IsDigit(c) == \E d \in 1..Len(Digits) : Digits[d] = c

DigitValue(c) == (CHOOSE d \in 1..Len(Digits) : Digits[d] = c) - 1

RECURSIVE Magnitude(_, _)
Magnitude(s, acc) ==
    IF s = << >> THEN acc
    ELSE Magnitude(Tail(s), acc * 10 + DigitValue(Head(s)))

Signed(s) == s # << >> /\ Head(s) \in {"-", "+"}

Unsigned(s) == IF Signed(s) THEN Tail(s) ELSE s

\* Whether int(s) returns: s is an optional sign and at least one decimal
\* digit. Otherwise int(s) raises ValueError.
IntAccepts(s) ==
    /\ Unsigned(s) # << >>
    /\ \A k \in 1..Len(Unsigned(s)) : IsDigit(Unsigned(s)[k])

\* int(s), for a string it accepts.
int(s) ==
    IF Signed(s) /\ Head(s) = "-"
    THEN 0 - Magnitude(Unsigned(s), 0)
    ELSE Magnitude(Unsigned(s), 0)

(***************************************************************************)
(* gerrithelpers/commit.py                                                 *)
(***************************************************************************)

\* self.labels: {'Verified': verified, 'Code-Review': {'all': all}}
Labels(verified, all) ==
    ("Verified" :> verified) @@ ("Code-Review" :> [all |-> all])

\* VerifiedLabel with the approving values cut to "1" alone: a vote of "2"
\* is then neither approved nor rejected.
VerifiedLabelOnlyOne(patchsets) ==
    LET labels == Get(patchsets[Len(patchsets)], "approvals", << >>)
        verified == OfType(labels, "Verified")
    IN  IF Len(verified) > 0
        THEN [approved |-> verified[1]["value"] \in {<< "1" >>},
              rejected |-> verified[1]["value"] \notin {<< "1" >>, << "2" >>}]
        ELSE None

\* The Verified label of _parse_labels: taken from the last patchset only.
VerifiedLabel(patchsets) ==
    LET labels == Get(patchsets[Len(patchsets)], "approvals", << >>)
        verified == OfType(labels, "Verified")
    IN  IF Len(verified) > 0
        THEN [approved |-> verified[1]["value"] \in {<< "1" >>, << "2" >>},
              rejected |-> verified[1]["value"] \notin {<< "1" >>, << "2" >>}]
        ELSE None

\* "cr['value'] = int(cr['value'])" over the collected Code-Review entries.
RECURSIVE FixUp(_)
FixUp(crs) ==
    IF crs = << >> THEN << >>
    ELSE << [Head(crs) EXCEPT !["value"] = int(Head(crs)["value"])] >>
         \o FixUp(Tail(crs))

\* Walk with the break moved below the collection: the first patchset that
\* is neither the latest nor a trivial rebase still contributes its votes.
RECURSIVE WalkPastBoundary(_, _, _)
WalkPastBoundary(patchsets, k, all) ==
    IF k = 0 THEN all
    ELSE LET patch == patchsets[k]
             more == all \o OfType(Get(patch, "approvals", << >>),
                                   "Code-Review")
         IN  IF /\ patch["number"] # patchsets[Len(patchsets)]["number"]
                /\ patch["kind"] # "TRIVIAL_REBASE"
             THEN more
             ELSE WalkPastBoundary(patchsets, k - 1, more)

\* "for patch in reversed(patchsets)", from index k down, with its break.
RECURSIVE Walk(_, _, _)
Walk(patchsets, k, all) ==
    IF k = 0 THEN all
    ELSE LET patch == patchsets[k] IN
         IF /\ patch["number"] # patchsets[Len(patchsets)]["number"]
            /\ patch["kind"] # "TRIVIAL_REBASE"
         THEN all
         ELSE Walk(patchsets, k - 1,
                   all \o OfType(Get(patch, "approvals", << >>),
                                 "Code-Review"))

\* ParseLabels without the required-field test: a response that lacks
\* patchSets gives the labels __init__ starts from.
ParseLabelsEmptyRecord(d) ==
    IF "patchSets" \notin DOMAIN d THEN Labels(None, << >>)
    ELSE LET patchsets == d["patchSets"] IN
         IF patchsets = << >> THEN Raise("IndexError")
         ELSE Labels(VerifiedLabel(patchsets),
                     FixUp(Walk(patchsets, Len(patchsets), << >>)))

\* ParseLabels falling back on currentPatchSet as the only patchset when
\* patchSets is missing.
ParseLabelsCurrentPatchSet(d) ==
    LET patchsets == IF "patchSets" \in DOMAIN d THEN d["patchSets"]
                     ELSE IF "currentPatchSet" \in DOMAIN d
                          THEN << d["currentPatchSet"] >>
                          ELSE << >>
    IN  IF "patchSets" \notin DOMAIN d /\ "currentPatchSet" \notin DOMAIN d
        THEN Raise("ValueError")
        ELSE IF patchsets = << >> THEN Raise("IndexError")
        ELSE Labels(VerifiedLabel(patchsets),
                    FixUp(Walk(patchsets, Len(patchsets), << >>)))

\* _parse_labels: the labels it leaves in self.labels, or the exception it
\* raises: ValueError for a missing patchSets field (data.get gives None),
\* IndexError at patchsets[-1] of an empty array, ValueError from int().
ParseLabels(d) ==
    IF "patchSets" \notin DOMAIN d THEN Raise("ValueError")
    ELSE LET patchsets == d["patchSets"] IN
         IF patchsets = << >> THEN Raise("IndexError")
         ELSE LET all == Walk(patchsets, Len(patchsets), << >>) IN
              IF \E k \in 1..Len(all) : ~IntAccepts(all[k]["value"])
              THEN Raise("ValueError")
              ELSE Labels(VerifiedLabel(patchsets), FixUp(all))

\* GerritCommit(id, data): the object, or the exception __init__ raises.
NewGerritCommit(id, d) ==
    LET labels == ParseLabels(d) IN
    IF Raised(labels) THEN labels
    ELSE [id |-> id, labels |-> labels, status |-> Get(d, "status", "UNKNOWN")]

(***************************************************************************)
(* gerritlog.py: class Commit                                              *)
(***************************************************************************)

\* class VerifyStatus(enum.Enum)
FAILURE == -1
NO_SCORE == 0
SUCCESS == 1

\* The keys of showlog's markmap.
MinMark == -2
MaxMark == 2

\* Commit._get_change_id: the id of the first line of the message that
\* _chgid_regex matches, None when no line does. A line is modelled as
\* [text |-> ...] or, when the regex matches it, [text |-> ..., id |-> group 1].
RECURSIVE GetChangeId(_)
GetChangeId(message) ==
    IF message = << >> THEN None
    ELSE IF "id" \in DOMAIN Head(message) THEN Str(Head(message)["id"])
    ELSE GetChangeId(Tail(message))

\* Commit(c, client): the fields the status methods and showlog read.
\* _check_merged is the commit being an ancestor of origin/master's tip,
\* which the repository decides (c.upstream).
NewCommit(c) ==
    [sha |-> c["hexsha"],
     change_id |-> GetChangeId(c["message"]),
     is_merged |-> c["upstream"],
     changeinfo |-> None]

\* Commit.verify_status; status.get on None raises AttributeError.
verify_status(self) ==
    IF self["changeinfo"] = None THEN Return(NO_SCORE)
    ELSE LET status == self["changeinfo"]["labels"]["Verified"] IN
         IF status = None THEN Raise("AttributeError")
         ELSE IF GetIsNotNone(status, "approved") THEN Return(SUCCESS)
         ELSE IF GetIsNotNone(status, "rejected") THEN Return(FAILURE)
         ELSE Return(NO_SCORE)

\* [*filter(lambda v: v != 0, [m['value'] for m in review])]
RECURSIVE NonZeroMarks(_)
NonZeroMarks(review) ==
    IF review = << >> THEN << >>
    ELSE IF Head(review)["value"] # 0
         THEN << Head(review)["value"] >> \o NonZeroMarks(Tail(review))
         ELSE NonZeroMarks(Tail(review))

\* The largest mark where min gives the smallest.
RECURSIVE max(_)
max(marks) ==
    IF Len(marks) = 1 THEN marks[1]
    ELSE LET m == max(Tail(marks)) IN IF marks[1] > m THEN marks[1] ELSE m

\* min(marks), marks not empty
RECURSIVE min(_)
min(marks) ==
    IF Len(marks) = 1 THEN marks[1]
    ELSE LET m == min(Tail(marks)) IN IF marks[1] < m THEN marks[1] ELSE m

\* Commit.review_mark
review_mark(self) ==
    IF self["changeinfo"] = None THEN Return(0)
    ELSE LET marks ==
                 NonZeroMarks(self["changeinfo"]["labels"]["Code-Review"]["all"])
         IN  IF marks # << >> THEN Return(min(marks)) ELSE Return(0)

\* needs_rebase without its first test, on is_merged.
needs_rebase_IgnoringMerged(self) ==
    IF self["changeinfo"] = None THEN Return(FALSE)
    ELSE Return(self["changeinfo"]["status"] = "MERGED")

\* Commit.needs_rebase
needs_rebase(self) ==
    IF self["is_merged"] THEN Return(FALSE)
    ELSE IF self["changeinfo"] = None THEN Return(FALSE)
    ELSE Return(self["changeinfo"]["status"] = "MERGED")

\* The status field of the line showlog prints for one commit: "rb/m",
\* "   m", or mark|verified; markmap[...] raises KeyError off its keys and
\* an exception of verify_status passes through.
StatusField(self) ==
    IF needs_rebase(self)["value"] THEN [marker |-> "rb/m"]
    ELSE IF self["is_merged"] THEN [marker |-> "   m"]
    ELSE LET mark == review_mark(self)["value"]
             verified == verify_status(self)
         IN  IF mark < MinMark \/ mark > MaxMark THEN Raise("KeyError")
             ELSE IF Raised(verified) THEN verified
             ELSE [marker |-> "|", mark |-> mark,
                   verified |-> verified["value"]]

\* infos.get(change_id), infos being {info.id: info for info in ...}
InfosGet(infos, change_id) ==
    IF \E x \in infos : x["id"] = change_id
    THEN CHOOSE x \in infos : x["id"] = change_id
    ELSE None

(***************************************************************************)
(* gerrithelpers/sshclient.py                                              *)
(***************************************************************************)

\* GerritSSHClient.Changes.get(id): _exec raises GerritSSHException on a
\* non-zero exit status, else the first line of the output is decoded and
\* handed to GerritCommit.
ChangesGet(id, reply) ==
    IF reply["rc"] # 0 THEN Raise("GerritSSHException")
    ELSE NewGerritCommit(id, reply["stdout"])

\* "for info in x": a GerritCommit defines neither __iter__ nor __getitem__.
Iterate(x) == IF Raised(x) THEN x ELSE Raise("TypeError")

(***************************************************************************)
(* The review server: what "gerrit query --format=json --all-approvals     *)
(* change:<id>" answers as the change is worked on.                        *)
(***************************************************************************)

Kinds == {"REWORK", "TRIVIAL_REBASE"}

Approvals ==
    {[type |-> "Verified", value |-> v] :
         v \in {<< "1" >>, << "2" >>, << "-", "1" >>}}
    \cup {[type |-> "Code-Review", value |-> v] :
              v \in {<< "-", "1" >>, << "0" >>, << "2" >>}}

\* The first line of the answer: the stats row of a query that matched
\* nothing, a change that has no patchset yet (with and without its status
\* field), and the shape that carries currentPatchSet instead of patchSets.
InitialResponses ==
    { [type |-> "stats"],
      [status |-> "NEW", patchSets |-> << >>],
      [patchSets |-> << >>],
      [status |-> "NEW",
       currentPatchSet |-> [number |-> 1, kind |-> "REWORK"]] }

RECURSIVE CountApprovals(_)
CountApprovals(patchsets) ==
    IF patchsets = << >> THEN 0
    ELSE Len(Get(Head(patchsets), "approvals", << >>))
         + CountApprovals(Tail(patchsets))

\* The patchsets a response carries, under either field.
Revisions(d) ==
    IF "patchSets" \in DOMAIN d THEN d["patchSets"]
    ELSE IF "currentPatchSet" \in DOMAIN d THEN << d["currentPatchSet"] >>
    ELSE << >>

\* patch with one more approval; the key appears with the first one.
WithApproval(patch, a) ==
    IF "approvals" \in DOMAIN patch
    THEN [patch EXCEPT !["approvals"] = Append(@, a)]
    ELSE patch @@ ("approvals" :> << a >>)

ChangeIds == {Str("I123")}

(***************************************************************************)
(* Spec: constructing a change record from a response.                     *)
(***************************************************************************)

IdleParse == /\ data = None /\ info = None /\ exc = None

IdleCommit == /\ commit = None /\ called = "none" /\ ret = None

IdleLog == /\ history = << >> /\ max_count = 0 /\ i = 0 /\ commits = << >>
           /\ queried = None /\ printed = 0 /\ pc = "idle"

Init ==
    /\ data \in InitialResponses
    /\ info = None
    /\ exc = None
    /\ IdleCommit
    /\ IdleLog

Unanswered == info = None /\ exc = None

\* A new patchset is uploaded to the change.
Upload ==
    /\ Unanswered
    /\ "patchSets" \in DOMAIN data
    /\ Len(data["patchSets"]) < MaxPatchSets
    /\ \E k \in Kinds :
         data' = [data EXCEPT !["patchSets"] =
                      Append(@, [number |-> Len(@) + 1, kind |-> k])]
    /\ UNCHANGED << info, exc, commitVars, logVars >>

\* A reviewer or the CI votes on the latest patchset.
Vote ==
    /\ Unanswered
    /\ Revisions(data) # << >>
    /\ CountApprovals(Revisions(data)) < MaxApprovals
    /\ \E a \in Approvals :
         data' = IF "patchSets" \in DOMAIN data
                 THEN [data EXCEPT !["patchSets"][Len(data["patchSets"])] =
                           WithApproval(@, a)]
                 ELSE [data EXCEPT !["currentPatchSet"] = WithApproval(@, a)]
    /\ UNCHANGED << info, exc, commitVars, logVars >>

\* The change is submitted.
Submit ==
    /\ Unanswered
    /\ "status" \in DOMAIN data
    /\ data["status"] = "NEW"
    /\ data' = [data EXCEPT !["status"] = "MERGED"]
    /\ UNCHANGED << info, exc, commitVars, logVars >>

\* Changes.get(id), once the answer is decoded: GerritCommit(id, data).
GerritCommit ==
    /\ Unanswered
    /\ \E id \in ChangeIds :
         LET obj == NewGerritCommit(id, data) IN
         IF Raised(obj)
         THEN exc' = obj /\ info' = info
         ELSE info' = obj /\ exc' = exc
    /\ UNCHANGED << data, commitVars, logVars >>

Next == Upload \/ Vote \/ Submit \/ GerritCommit

Spec == Init /\ [][Next]_vars

(***************************************************************************)
(* SpecCommit: the status methods of one Commit.                           *)
(***************************************************************************)

Messages ==
    { << [text |-> "title"] >>,
      << [text |-> "title"], [text |-> "Change-Id: I123", id |-> "I123"] >>,
      << [text |-> "title"], [text |-> "Change-Id: I456", id |-> "I456"] >>,
      << [text |-> "title"], [text |-> "Change-Id: I456", id |-> "I456"],
         [text |-> "Change-Id: I123", id |-> "I123"] >> }

RECURSIVE VoteLists(_)
VoteLists(n) ==
    IF n = 0 THEN {<< >>}
    ELSE VoteLists(n - 1)
         \cup {Append(s, [type |-> "Code-Review", value |-> v]) :
                   s \in {t \in VoteLists(n - 1) : Len(t) = n - 1},
                   v \in MinMark..MaxMark}

\* The change records GerritCommit can build for change `id`.
ChangeInfos(id) ==
    {[id |-> id, labels |-> Labels(v, all), status |-> s] :
         v \in {None, [approved |-> TRUE, rejected |-> FALSE],
                [approved |-> FALSE, rejected |-> TRUE]},
         all \in VoteLists(MaxVotes),
         s \in {"UNKNOWN", "NEW", "MERGED"}}

InitCommit ==
    /\ \E m \in Messages, u \in BOOLEAN :
         commit = NewCommit([hexsha |-> 1, message |-> m, upstream |-> u])
    /\ called = "none"
    /\ ret = None
    /\ IdleParse
    /\ IdleLog

\* showlog: commit.changeinfo = infos.get(commit.change_id)
SetChangeinfo ==
    /\ called = "none"
    /\ commit["changeinfo"] = None
    /\ \E infos \in {{}} \cup {{x} : x \in ChangeInfos(Str("I123"))} :
         commit' = [commit EXCEPT !["changeinfo"] =
                        InfosGet(infos, commit["change_id"])]
    /\ UNCHANGED << called, ret, parseVars, logVars >>

CallVerifyStatus ==
    /\ called = "none"
    /\ called' = "verify_status"
    /\ ret' = verify_status(commit)
    /\ UNCHANGED << commit, parseVars, logVars >>

CallReviewMark ==
    /\ called = "none"
    /\ called' = "review_mark"
    /\ ret' = review_mark(commit)
    /\ UNCHANGED << commit, parseVars, logVars >>

CallNeedsRebase ==
    /\ called = "none"
    /\ called' = "needs_rebase"
    /\ ret' = needs_rebase(commit)
    /\ UNCHANGED << commit, parseVars, logVars >>

\* The body of showlog's printing loop for this commit.
PrintStatus ==
    /\ called = "none"
    /\ called' = "print"
    /\ ret' = StatusField(commit)
    /\ UNCHANGED << commit, parseVars, logVars >>

NextCommit ==
    SetChangeinfo \/ CallVerifyStatus \/ CallReviewMark \/ CallNeedsRebase
    \/ PrintStatus

SpecCommit == InitCommit /\ [][NextCommit]_vars

(***************************************************************************)
(* SpecLog: showlog, from the first commit of the history to its end.      *)
(***************************************************************************)

\* Histories of n commits, newest first: once a commit is an ancestor of
\* the upstream tip, so is every commit after it.
RECURSIVE Histories(_)
Histories(n) ==
    IF n = 0 THEN {<< >>}
    ELSE {Append(h, [hexsha |-> n, message |-> m, upstream |-> u]) :
              h \in Histories(n - 1), m \in Messages,
              u \in BOOLEAN} 

MergedSuffix(h) ==
    \A j \in 1..Len(h), k \in 1..Len(h) :
        j < k /\ h[j]["upstream"] => h[k]["upstream"]

\* What the server may answer to the one query showlog issues.
Replies ==
    {[rc |-> 1]} \cup {[rc |-> 0, stdout |-> d] : d \in InitialResponses}

InitLog ==
    /\ \E n \in 0..MaxHistory :
         /\ history \in Histories(n)
         /\ MergedSuffix(history)
    /\ max_count \in (0 - 1)..(MaxHistory + 1)
    /\ i = 0
    /\ commits = << >>
    /\ queried = None
    /\ printed = 0
    /\ pc = "collect"
    /\ IdleParse
    /\ IdleCommit

\* One pass of "for i, c in enumerate(repo.iter_commits(), 1)".
Collect ==
    /\ pc = "collect"
    /\ i < Len(history)
    /\ i' = i + 1
    /\ LET c == NewCommit(history[i + 1]) IN
         /\ commits' = Append(commits, c)
         /\ pc' = IF c["is_merged"] \/ i' >= max_count
                  THEN "lookup" ELSE "collect"
    /\ UNCHANGED << history, max_count, queried, printed, parseVars,
                    commitVars >>

\* iter_commits() is exhausted.
Exhausted ==
    /\ pc = "collect"
    /\ i = Len(history)
    /\ pc' = "lookup"
    /\ UNCHANGED << history, max_count, i, commits, queried, printed,
                    parseVars, commitVars >>

\* [c.change_id for c in commits]
ChangeIdsOf(cs) == [k \in 1..Len(cs) |-> cs[k]["change_id"]]

\* "infos = {info.id: info for info in client.changes.get([...])}": get is
\* handed the list of change ids and returns one GerritCommit or raises;
\* iterating what it returns raises, so showlog ends here without printing.
Lookup ==
    /\ pc = "lookup"
    /\ queried' = ChangeIdsOf(commits)
    /\ \E reply \in Replies :
         exc' = Iterate(ChangesGet(ChangeIdsOf(commits), reply))
    /\ pc' = "raised"
    /\ UNCHANGED << history, max_count, i, commits, printed, data, info,
                    commitVars >>

NextLog == Collect \/ Exhausted \/ Lookup

SpecLog == InitLog /\ [][NextLog]_vars

(***************************************************************************)
(* Properties of the change record (Spec).                                 *)
(***************************************************************************)

\* Changes.get has returned or raised.
Answered == info # None \/ exc # None

\* The value int() gives for each vote string the server sends.
VoteValue(s) ==
    CASE s = << "-", "2" >> -> 0 - 2
      [] s = << "-", "1" >> -> 0 - 1
      [] s = << "0" >> -> 0
      [] s = << "1" >> -> 1
      [] s = << "2" >> -> 2

\* The Code-Review values of one patchset, in the order of its approvals.
CodeReviewValues(patch) ==
    LET crs == SelectSeq(Get(patch, "approvals", << >>),
                         LAMBDA a : a["type"] = "Code-Review")
    IN  [k \in 1..Len(crs) |-> VoteValue(crs[k]["value"])]

\* Patchset k is the latest, or it and every patchset between it and the
\* latest is a trivial rebase.
Considered(patchsets, k) ==
    \A j \in k..(Len(patchsets) - 1) : patchsets[j]["kind"] = "TRIVIAL_REBASE"

RECURSIVE ConsideredValues(_, _)
ConsideredValues(patchsets, k) ==
    IF k = 0 \/ ~Considered(patchsets, k) THEN << >>
    ELSE CodeReviewValues(patchsets[k]) \o ConsideredValues(patchsets, k - 1)

\* The values of the record's Code-Review entries.
RecordValues(x) ==
    LET all == x["labels"]["Code-Review"]["all"]
    IN  [k \in 1..Len(all) |-> all[k]["value"]]

\* The Verified entries of the latest patchset of the response.
LatestVerified ==
    SelectSeq(Get(data["patchSets"][Len(data["patchSets"])], "approvals", << >>),
              LAMBDA a : a["type"] = "Verified")

\* Every record GerritCommit builds is one of the records SpecCommit attaches
\* to a commit: the Verified label is None or a pair of opposite booleans,
\* every Code-Review value is an integer mark, the status is a string.
RecordsAreChangeInfos ==
    info # None =>
        /\ info["labels"]["Verified"] \in
               {None, [approved |-> TRUE, rejected |-> FALSE],
                [approved |-> FALSE, rejected |-> TRUE]}
        /\ \A k \in 1..Len(RecordValues(info)) :
               RecordValues(info)[k] \in MinMark..MaxMark
        /\ info["status"] \in {"UNKNOWN", "NEW", "MERGED"}

\* C3: in every change record GerritCommit produces, labels['Verified'] is
\* None exactly when the latest patchset has no Verified approval, and
\* otherwise has exactly one of approved and rejected true: approved iff the
\* value of the (first) Verified vote of the latest patchset is "1" or "2".
C3_VerifiedExclusive ==
    info # None =>
        LET label == info["labels"]["Verified"] IN
        IF LatestVerified = << >> THEN label = None
        ELSE /\ label # None
             /\ DOMAIN label = {"approved", "rejected"}
             /\ label["approved"] =
                    (LatestVerified[1]["value"] \in {<< "1" >>, << "2" >>})
             /\ label["rejected"] = ~label["approved"]

\* A record was built from a latest patchset with two Verified votes, "2"
\* and then "-1": the first decides, so the label is approved.
C3_Witness ==
    /\ info # None
    /\ LatestVerified # << >>
    /\ LatestVerified[1]["value"] = << "2" >>
    /\ Len(LatestVerified) = 2
    /\ LatestVerified[2]["value"] = << "-", "1" >>
    /\ info["labels"]["Verified"] = [approved |-> TRUE, rejected |-> FALSE]

\* C4: for a non-empty patchSets array the Code-Review votes of the record
\* are those of the latest patchset followed by those of each preceding
\* patchset for as long as that patchset's kind is TRIVIAL_REBASE, newest
\* patchset first; the first older patchset of another kind, and all before
\* it, contribute nothing, and a patchset without approvals does not stop
\* the walk.
C4_TrivialRebaseWalk ==
    info # None =>
        RecordValues(info) =
            ConsideredValues(data["patchSets"], Len(data["patchSets"]))

\* Three patchsets [REWORK, TRIVIAL_REBASE, latest]: the oldest has a
\* Code-Review vote that is left out, the middle one has the only vote kept,
\* the latest has no approvals.
C4_Witness ==
    /\ info # None
    /\ Len(data["patchSets"]) = 3
    /\ data["patchSets"][1]["kind"] = "REWORK"
    /\ data["patchSets"][2]["kind"] = "TRIVIAL_REBASE"
    /\ CodeReviewValues(data["patchSets"][1]) = << 2 >>
    /\ CodeReviewValues(data["patchSets"][2]) = << 0 - 1 >>
    /\ "approvals" \notin DOMAIN data["patchSets"][3]
    /\ RecordValues(info) = << 0 - 1 >>

\* C5: a response without the patchSets field never yields a change record,
\* and constructing GerritCommit from it raises ValueError.
C5_MissingPatchSetsRaises ==
    "patchSets" \notin DOMAIN data =>
        /\ info = None
        /\ Answered => exc = Raise("ValueError")

\* The stats row of a query that matched nothing was answered with ValueError.
C5_Witness ==
    /\ data = [type |-> "stats"]
    /\ exc = Raise("ValueError")
    /\ info = None

CurrentPatchSetOnly ==
    "currentPatchSet" \in DOMAIN data /\ "patchSets" \notin DOMAIN data

HasRecord == commit["changeinfo"] # None

VerifiedOf(c) == c["changeinfo"]["labels"]["Verified"]

\* C1: for a commit whose record has a Verified vote, verify_status returns
\* SUCCESS when verified.approved is true and FAILURE when verified.rejected
\* is true.
C1_VerifiedVoteDecides ==
    (called = "verify_status" /\ HasRecord /\ VerifiedOf(commit) # None) =>
        /\ VerifiedOf(commit)["approved"] => ret = Return(SUCCESS)
        /\ VerifiedOf(commit)["rejected"] => ret = Return(FAILURE)

\* C2: verify_status returns NO_SCORE, and raises nothing, when the commit
\* has no record or a record whose Verified label is unset.
C2_NoScoreWithoutVerified ==
    (called = "verify_status" /\ (~HasRecord \/ VerifiedOf(commit) = None)) =>
        ret = Return(NO_SCORE)

\* The non-zero Code-Review values of the commit's record.
NonZeroVotes == {v \in {RecordValues(commit["changeinfo"])[k] :
                          k \in 1..Len(RecordValues(commit["changeinfo"]))} :
                     v # 0}

\* C6: review_mark returns 0 without a record and when no vote is non-zero,
\* and otherwise the least of the non-zero Code-Review votes.
C6_ReviewMarkIsLeastNonZero ==
    called = "review_mark" =>
        IF ~HasRecord THEN ret = Return(0)
        ELSE IF NonZeroVotes = {} THEN ret = Return(0)
        ELSE /\ ~Raised(ret)
             /\ ret["value"] \in NonZeroVotes
             /\ \A v \in NonZeroVotes : ret["value"] <= v

\* review_mark over the votes [-1, 2, 0] returned -1.
C6_Witness ==
    /\ called = "review_mark"
    /\ HasRecord
    /\ RecordValues(commit["changeinfo"]) = << 0 - 1, 2, 0 >>
    /\ ret = Return(0 - 1)

\* C7: needs_rebase is false for a merged commit whatever its record holds,
\* false without a record, and otherwise true exactly when the record's
\* status is "MERGED"; the line printed for a merged commit never carries
\* the rebase marker.
C7_NeedsRebase ==
    /\ called = "needs_rebase" =>
           ret = Return(/\ ~commit["is_merged"]
                        /\ HasRecord
                        /\ commit["changeinfo"]["status"] = "MERGED")
    /\ (called = "print" /\ commit["is_merged"]) => ret = [marker |-> "   m"]

\* needs_rebase returned False for a merged commit whose record is MERGED.
C7_Witness ==
    /\ called = "needs_rebase"
    /\ commit["is_merged"]
    /\ HasRecord
    /\ commit["changeinfo"]["status"] = "MERGED"
    /\ ret = Return(FALSE)

(***************************************************************************)
(* Properties of showlog (SpecLog).                                        *)
(***************************************************************************)

\* showlog has returned or raised.
Ended == pc \notin {"collect", "lookup"}

\* C8: a commit without a Change-Id trailer causes no lookup for it (None is
\* never handed to the client) and is reported on a line of its own.
C8_NoLookupWithoutChangeId ==
    Ended =>
        \A j \in 1..Len(commits) :
            commits[j]["change_id"] = None =>
                /\ \A k \in 1..Len(queried) : queried[k] # None
                /\ printed >= j

\* C10: the collection loop visits the history in order and stops at the
\* first merged commit or at max_count commits: the list never holds more
\* than max_count commits, holds at most one merged commit, which is its
\* last, and one status line is printed per collected commit. (A negative
\* max_count is read as allowing no commit.)
C10_CollectAndPrint ==
    /\ Len(commits) <= (IF max_count < 0 THEN 0 ELSE max_count)
    /\ \A j \in 1..Len(commits) :
           /\ commits[j]["sha"] = history[j]["hexsha"]
           /\ commits[j]["is_merged"] => j = Len(commits)
    /\ Ended => printed = Len(commits)

====
